---- MODULE Spec2Model ----
(***************************************************************************)
(* A model of permutation_rs: permutations, free words, straight-line      *)
(* programs and the Schreier-Sims stabilizer chain (src/src/group).        *)
(***************************************************************************)
EXTENDS Integers, Sequences, FiniteSets, TLC

\* ------------------------------------------------------------------ bounds
\* Points of the universe of a group: 0 .. MaxN-1.
MaxN == 3
\* Points a bare Permutation may mention: 0 .. MaxPoint-1.
MaxPoint == 3
\* Longest (symbol, exponent) sequence handed to Word::new.
MaxLen == 3
\* Generators an SLP may name: SLP::Generator(0) .. SLP::Generator(MaxId-1).
MaxId == 2
\* Most SLPWords made from one SLPFactory.
MaxWords == 4

VARIABLES
    \* free words (free.rs)
    elements, left, right, answer, wop,
    \* permutations (permutation.rs)
    first, second, product, pair, identical, pop,
    \* the group (mod.rs)
    gset, generators, group, status, element, stripped, again, member, order, gop,
    \* a call of transversal_for on a level of the group: the level's position,
    \* the point asked for and the answer; `found` also holds the answer of a
    \* call of find_base
    depth, target, found,
    \* the subgroup generated by `generators`, by brute-force closure: the
    \* actions of its elements, and the Permutations that times and inverse
    \* make of the generators
    subgroup, products,
    \* straight-line programs and a morphism into the free words (tree.rs)
    morphism, term, factor, expression, how, literal, word, sop,
    \* an SLPFactory's collection and the SLPWords made from it (tree.rs), with
    \* the element each word stands for, computed directly
    collection, words, expected, chosen, evaluated, fop,
    \* the working generating set `gs` of Group::new while its loop runs
    working,
    \* the collections of two SLPFactories, the SLPWords made from either (each
    \* with the factory whose collection it holds) and the last evaluation
    factories, handles, outcome, hop

wordVars == <<elements, left, right, answer, wop>>
permVars == <<first, second, product, pair, identical, pop>>
groupVars == <<gset, generators, group, status, element, stripped, again, member, order,
               gop, depth, target, found, subgroup, products>>
slpVars == <<morphism, term, factor, expression, how, literal, word, sop>>
vars == <<elements, left, right, answer, wop, first, second, product, pair, identical, pop,
          gset, generators, group, status, element, stripped, again, member, order, gop,
          depth, target, found, subgroup, products, morphism, term, factor, expression, how, literal, word, sop,
          collection, words, expected, chosen, evaluated, fop, working,
          factories, handles, outcome, hop>>
chainVars == <<working>>
sharedVars == <<factories, handles, outcome, hop>>
factoryVars == <<collection, words, expected, chosen, evaluated, fop>>

\* ------------------------------------------------------------------ Option
None == <<>>
Some(x) == <<x>>
unwrap(o) == o[1]

\* ------------------------------------------------------------- Permutation
\* HashMap::get(..).unwrap_or(..)
get_unwrap_or(images, original) ==
    IF original \in DOMAIN images THEN images[original] ELSE original

\* HashMap::insert: a later insert of a key replaces the earlier one
insert(images, key, value) == (key :> value) @@ images

Permutation_new(images) ==
    [n |-> Cardinality(DOMAIN images), images |-> images]

\* an identity test whose range stops one point early
Permutation_is_identity_short(self) ==
    \A i \in 0 .. self.n - 2 : get_unwrap_or(self.images, i) = i

\* an identity test that returns after looking at the first point
Permutation_is_identity_first(self) ==
    self.n = 0 \/ get_unwrap_or(self.images, 0) = 0

Permutation_is_identity(self) ==
    \A i \in 0 .. self.n - 1 : get_unwrap_or(self.images, i) = i

\* for i in 0..max_n { images.insert(original, image) }
RECURSIVE times_images(_, _, _, _, _)
times_images(self, multiplicant, i, max_n, images) ==
    IF i >= max_n
    THEN images
    ELSE times_images(self, multiplicant, i + 1, max_n,
             insert(images, i,
                    get_unwrap_or(multiplicant.images, get_unwrap_or(self.images, i))))

\* a product composed from right to left
Permutation_times_right_to_left(self, multiplicant) ==
    Permutation_new(times_images(multiplicant, self, 0,
        IF self.n > multiplicant.n THEN self.n ELSE multiplicant.n, <<>>))

Permutation_times(self, multiplicant) ==
    Permutation_new(times_images(self, multiplicant, 0,
        IF self.n > multiplicant.n THEN self.n ELSE multiplicant.n, <<>>))

\* for i in 0..self.n { images.insert(image, original) }
RECURSIVE inverse_images(_, _, _)
inverse_images(self, i, images) ==
    IF i >= self.n
    THEN images
    ELSE inverse_images(self, i + 1, insert(images, get_unwrap_or(self.images, i), i))

\* an inverse that copies the entries without swapping them
Permutation_inverse_unswapped(self) == Permutation_new(self.images)

Permutation_inverse(self) == Permutation_new(inverse_images(self, 0, <<>>))

Permutation_act_on(self, original) == get_unwrap_or(self.images, original)

\* --------------------------------------------------------------- Free Word
RECURSIVE normalize_loop(_, _, _, _)
normalize_loop(not_normalized, normalized, current, index) ==
    IF index >= Len(not_normalized)
    THEN IF current[2] # 0 THEN Append(normalized, current) ELSE normalized
    ELSE LET primitive == not_normalized[index + 1]
         IN  IF current[1] = primitive[1]
             THEN normalize_loop(not_normalized, normalized,
                                 <<current[1], current[2] + primitive[2]>>, index + 1)
             ELSE IF current[2] # 0
             THEN normalize_loop(not_normalized, Append(normalized, current),
                                 primitive, index + 1)
             ELSE IF normalized # <<>>
             THEN normalize_loop(not_normalized,
                                 SubSeq(normalized, 1, Len(normalized) - 1),
                                 normalized[Len(normalized)], index)
             ELSE normalize_loop(not_normalized, normalized, primitive, index + 1)

\* a normalizer that drops a cancelled pair without looking back at the stack
normalize_no_cascade(elems) ==
    LET F[i \in 0 .. Len(elems)] ==
            IF i = 0 THEN <<>>
            ELSE LET prev == F[i - 1]
                     p == elems[i]
                 IN  IF prev # <<>> /\ prev[Len(prev)][1] = p[1]
                     THEN Append(SubSeq(prev, 1, Len(prev) - 1),
                                 <<p[1], prev[Len(prev)][2] + p[2]>>)
                     ELSE IF prev # <<>> /\ prev[Len(prev)][2] = 0
                     THEN Append(SubSeq(prev, 1, Len(prev) - 1), p)
                     ELSE Append(prev, p)
         out == F[Len(elems)]
    IN  IF out # <<>> /\ out[Len(out)][2] = 0
        THEN SubSeq(out, 1, Len(out) - 1) ELSE out

normalize(elems) ==
    IF Len(elems) <= 1
    THEN elems
    ELSE normalize_loop(elems, <<>>, elems[1], 1)

Word_new(elems) == [terms |-> normalize(elems)]
Word_identity == Word_new(<<>>)
Word_generator(symbol) == Word_new(<<<<symbol, 1>>>>)
Word_is_identity(self) == Len(self.terms) = 0
Word_times(self, multiplicant) == [terms |-> normalize(self.terms \o multiplicant.terms)]

\* an inverse that negates the exponents but keeps the order of the terms
Word_inverse_unreversed(self) ==
    [terms |-> [i \in 1 .. Len(self.terms) |->
        <<self.terms[i][1], 0 - self.terms[i][2]>>]]

Word_inverse(self) ==
    [terms |-> [i \in 1 .. Len(self.terms) |->
        <<self.terms[Len(self.terms) + 1 - i][1],
          0 - self.terms[Len(self.terms) + 1 - i][2]>>]]

\* --------------------------------------------------------------------- SLP
SLP_Identity == [tag |-> "Identity"]
SLP_Generator(id) == [tag |-> "Generator", id |-> id]
SLP_is_identity(self) == self.tag = "Identity"
\* a product that drops an identity operand
SLP_times_simplifying(self, multiplicant) ==
    IF self.tag = "Identity" THEN multiplicant
    ELSE IF multiplicant.tag = "Identity" THEN self
    ELSE [tag |-> "Product", left |-> self, right |-> multiplicant]

SLP_times(self, multiplicant) == [tag |-> "Product", left |-> self, right |-> multiplicant]
SLP_inverse(self) == [tag |-> "Inverse", term |-> self]

\* ---------------------------------------------------------------- Morphism
\* a call that returned a value, and one that aborted the program
Returned(value) == [panicked |-> FALSE, value |-> value]
Panicked == [panicked |-> TRUE]

Morphism_new(generator_images) == [generator_images |-> generator_images]

\* a lookup that answers the identity for a generator without an image
Morphism_transform_or_identity(self, g) ==
    IF g \in DOMAIN self.generator_images
    THEN Returned(self.generator_images[g])
    ELSE Returned(Word_identity)

\* generator_images.get(element).expect("should have an image").clone()
Morphism_transform(self, g) ==
    IF g \in DOMAIN self.generator_images
    THEN Returned(self.generator_images[g])
    ELSE Panicked

\* match *self { Identity, Generator, Product, Inverse }; a panic in an operand
\* ends the evaluation, the left operand of a product being evaluated first
RECURSIVE SLP_transform(_, _)
\* a transform that multiplies the operands of a product right to left
SLP_transform_right_to_left(self, m) ==
    IF self.tag = "Identity" THEN Returned(Word_identity)
    ELSE IF self.tag = "Generator" THEN Morphism_transform(m, self)
    ELSE IF self.tag = "Product"
    THEN LET l == SLP_transform(self.left, m)
         IN  IF l.panicked THEN Panicked
             ELSE LET r == SLP_transform(self.right, m)
                  IN  IF r.panicked THEN Panicked
                      ELSE Returned(Word_times(r.value, l.value))
    ELSE LET g == SLP_transform(self.term, m)
         IN  IF g.panicked THEN Panicked
             ELSE Returned(Word_inverse(g.value))

SLP_transform(self, m) ==
    IF self.tag = "Identity" THEN Returned(Word_identity)
    ELSE IF self.tag = "Generator" THEN Morphism_transform(m, self)
    ELSE IF self.tag = "Product"
    THEN LET l == SLP_transform(self.left, m)
         IN  IF l.panicked THEN Panicked
             ELSE LET r == SLP_transform(self.right, m)
                  IN  IF r.panicked THEN Panicked
                      ELSE Returned(Word_times(l.value, r.value))
    ELSE LET g == SLP_transform(self.term, m)
         IN  IF g.panicked THEN Panicked
             ELSE Returned(Word_inverse(g.value))

\* ---------------------------------------------------------- SLPPermutation
SLPPermutation_new(slp, permutation) == [element |-> <<slp, permutation>>]
SLPPermutation_is_identity(self) == Permutation_is_identity(self.element[2])
SLPPermutation_times(self, multiplicant) ==
    SLPPermutation_new(SLP_times(self.element[1], multiplicant.element[1]),
                       Permutation_times(self.element[2], multiplicant.element[2]))
\* an inverse that inverts the permutation and leaves the SLP as it is
SLPPermutation_inverse_unmarked(self) ==
    SLPPermutation_new(self.element[1], Permutation_inverse(self.element[2]))

SLPPermutation_inverse(self) ==
    SLPPermutation_new(SLP_inverse(self.element[1]),
                       Permutation_inverse(self.element[2]))
SLPPermutation_act_on(self, original) == Permutation_act_on(self.element[2], original)

\* ------------------------------------------- GroupElement and GroupAction
\* The traits, resolved by the type of the value: an SLPPermutation is the
\* struct with the field `element`, a Permutation the one with `n` and `images`.
IsSLPPermutation(g) == "element" \in DOMAIN g

is_identity(g) ==
    IF IsSLPPermutation(g) THEN SLPPermutation_is_identity(g) ELSE Permutation_is_identity(g)
times(g, multiplicant) ==
    IF IsSLPPermutation(g) THEN SLPPermutation_times(g, multiplicant)
    ELSE Permutation_times(g, multiplicant)
inverse(g) ==
    IF IsSLPPermutation(g) THEN SLPPermutation_inverse(g) ELSE Permutation_inverse(g)
act_on(g, original) ==
    IF IsSLPPermutation(g) THEN SLPPermutation_act_on(g, original)
    ELSE Permutation_act_on(g, original)

\* ----------------------------------- SLPElement, SLPCollection, SLPWord
SLPElement_Generator(id) == [tag |-> "Generator", id |-> id]
SLPElement_Product(left_id, right_id) ==
    [tag |-> "Product", left_id |-> left_id, right_id |-> right_id]
SLPElement_Inverse(id) == [tag |-> "Inverse", id |-> id]

SLPCollection_new == [next_id |-> 0, associations |-> <<>>, evaluator |-> <<>>]

\* returns the collection after the call and the id
SLPCollection_register(self, elem) ==
    <<[self EXCEPT !.associations = insert(self.associations, self.next_id, elem),
                   !.next_id = self.next_id + 1],
      self.next_id>>

SLPCollection_generator(self, g) ==
    <<[self EXCEPT !.associations = insert(self.associations, self.next_id,
                                           SLPElement_Generator(self.next_id)),
                   !.evaluator = insert(self.evaluator, self.next_id, g),
                   !.next_id = self.next_id + 1],
      self.next_id>>

RECURSIVE SLPCollection_evaluate(_, _)
\* an evaluation that multiplies the operands of a product right to left
SLPCollection_evaluate_right_to_left(self, id) ==
    IF id \in DOMAIN self.associations
    THEN LET elem == self.associations[id]
         IN  IF elem.tag = "Generator" THEN Some(self.evaluator[elem.id])
             ELSE IF elem.tag = "Product"
             THEN Some(times(unwrap(SLPCollection_evaluate(self, elem.right_id)),
                             unwrap(SLPCollection_evaluate(self, elem.left_id))))
             ELSE Some(inverse(unwrap(SLPCollection_evaluate(self, elem.id))))
    ELSE None

SLPCollection_evaluate(self, id) ==
    IF id \in DOMAIN self.associations
    THEN LET elem == self.associations[id]
         IN  IF elem.tag = "Generator" THEN Some(self.evaluator[elem.id])
             ELSE IF elem.tag = "Product"
             THEN Some(times(unwrap(SLPCollection_evaluate(self, elem.left_id)),
                             unwrap(SLPCollection_evaluate(self, elem.right_id))))
             ELSE Some(inverse(unwrap(SLPCollection_evaluate(self, elem.id))))
    ELSE None

\* an SLPWord is its id; the collection is the one its factory shares
SLPWord(id) == [id |-> id]
SLPWord_evaluate(shared, self) == unwrap(SLPCollection_evaluate(shared, self.id))
\* each returns the collection after the call and the new word
SLPWord_times(shared, self, multiplicant) ==
    LET registered == SLPCollection_register(shared,
                          SLPElement_Product(self.id, multiplicant.id))
    IN  <<registered[1], SLPWord(registered[2])>>
SLPWord_inverse(shared, self) ==
    LET registered == SLPCollection_register(shared, SLPElement_Inverse(self.id))
    IN  <<registered[1], SLPWord(registered[2])>>
SLPFactory_generator(shared, g) ==
    LET registered == SLPCollection_generator(shared, g)
    IN  <<registered[1], SLPWord(registered[2])>>

\* a recursion that never returns: the stack overflows
Overflowed == [panicked |-> FALSE, overflowed |-> TRUE]
IsReturned(r) == ~r.panicked /\ "value" \in DOMAIN r

\* evaluate as a call that may not return a value. `room` is the number of
\* nested calls still followed: a nest deeper than the number of entries has
\* come back to an id it is still evaluating, and evaluates it again for ever
RECURSIVE SLPCollection_evaluate_call(_, _, _)
SLPCollection_evaluate_call(self, id, room) ==
    IF room = 0 THEN Overflowed
    ELSE IF id \in DOMAIN self.associations
    THEN LET elem == self.associations[id]
         IN  IF elem.tag = "Generator"
             THEN IF elem.id \in DOMAIN self.evaluator
                  THEN Returned(Some(self.evaluator[elem.id]))
                  ELSE Panicked
             ELSE IF elem.tag = "Product"
             THEN LET l == SLPCollection_evaluate_call(self, elem.left_id, room - 1)
                  IN  IF ~IsReturned(l) THEN l
                      ELSE IF l.value = None THEN Panicked
                      ELSE LET r == SLPCollection_evaluate_call(self, elem.right_id,
                                                                room - 1)
                           IN  IF ~IsReturned(r) THEN r
                               ELSE IF r.value = None THEN Panicked
                               ELSE Returned(Some(times(unwrap(l.value),
                                                        unwrap(r.value))))
             ELSE LET g == SLPCollection_evaluate_call(self, elem.id, room - 1)
                  IN  IF ~IsReturned(g) THEN g
                      ELSE IF g.value = None THEN Panicked
                      ELSE Returned(Some(inverse(unwrap(g.value))))
    ELSE Returned(None)

\* SLPWord::evaluate on the collection the word holds
SLPWord_evaluate_call(shared, self) ==
    LET r == SLPCollection_evaluate_call(shared, self.id,
                 Cardinality(DOMAIN shared.associations) + 1)
    IN  IF ~IsReturned(r) THEN r
        ELSE IF r.value = None THEN Panicked
        ELSE Returned(unwrap(r.value))

\* calculation::identity: the product of the first generator and its inverse
identity(gens) == times(gens[1], inverse(gens[1]))

\* ------------------------------------------------------------- the chain
RECURSIVE transversal_walk(_, _, _, _)
\* a walk that multiplies each inverse on the left of the transversal
transversal_walk_prepending(image, transversal, gens, indices) ==
    IF indices[image] = -1
    THEN transversal
    ELSE LET inv == inverse(gens[indices[image] + 1])
         IN  transversal_walk(act_on(inv, image), times(inv, transversal), gens, indices)

transversal_walk(image, transversal, gens, indices) ==
    IF indices[image] = -1
    THEN transversal
    ELSE LET inv == inverse(gens[indices[image] + 1])
         IN  transversal_walk(act_on(inv, image), times(transversal, inv), gens, indices)

transversal_for(start, gens, indices) ==
    IF start \in DOMAIN indices
    THEN Some(inverse(transversal_walk(start, identity(gens), gens, indices)))
    ELSE None

\* a test that lets a stabilizer in a second time
add_to_stabilizers_again(stabilizer, stabilizers) == ~is_identity(stabilizer)

add_to_stabilizers(stabilizer, stabilizers) ==
    /\ ~is_identity(stabilizer)
    /\ ~(\E k \in 1 .. Len(stabilizers) : stabilizers[k] = stabilizer)

\* for (index, generator) in generators.iter().enumerate(), for one orbit point
RECURSIVE level_generators(_, _, _, _)
level_generators(point, index, st, gens) ==
    IF index >= Len(gens)
    THEN st
    ELSE LET generator == gens[index + 1]
             image == act_on(generator, point)
         IN  IF image \notin DOMAIN st.indices
             THEN level_generators(point, index + 1,
                      [to_visit |-> Append(st.to_visit, image),
                       indices |-> insert(st.indices, image, index),
                       stabilizers |-> st.stabilizers], gens)
             ELSE LET to == unwrap(transversal_for(point, gens, st.indices))
                      fro == inverse(unwrap(transversal_for(image, gens, st.indices)))
                      stabilizer == times(times(to, generator), fro)
                  IN  level_generators(point, index + 1,
                          IF add_to_stabilizers(stabilizer, st.stabilizers)
                          THEN [st EXCEPT !.stabilizers = Append(@, stabilizer)]
                          ELSE st, gens)

\* while !to_visit.is_empty()
RECURSIVE level_visit(_, _)
level_visit(st, gens) ==
    IF st.to_visit = <<>>
    THEN st
    ELSE level_visit(level_generators(Head(st.to_visit), 0,
                         [st EXCEPT !.to_visit = Tail(@)], gens), gens)

\* a level that hands its own generators on as its Schreier generators
BaseStrongGeneratorLevel_new_keeping(base, gens) ==
    LET st == level_visit([to_visit |-> <<base>>, indices |-> (base :> -1),
                           stabilizers |-> <<>>], gens)
    IN  <<[base |-> base, generators |-> gens, indices |-> st.indices], gens>>

\* the pair (level, stabilizers)
BaseStrongGeneratorLevel_new(base, gens) ==
    LET st == level_visit([to_visit |-> <<base>>, indices |-> (base :> -1),
                           stabilizers |-> <<>>], gens)
    IN  <<[base |-> base, generators |-> gens, indices |-> st.indices], st.stabilizers>>

has_transversal_for(self, g) == act_on(g, self.base) \in DOMAIN self.indices
\* a lookup of the transversal to the base itself instead of to the image of g
level_transversal_for_base(self, g) ==
    transversal_for(self.base, self.generators, self.indices)
level_transversal_for(self, g) ==
    transversal_for(act_on(g, self.base), self.generators, self.indices)
\* a length that leaves out the base
length_without_base(self) == Cardinality(DOMAIN self.indices) - 1
length(self) == Cardinality(DOMAIN self.indices)

\* a scan with the generators in the outer loop and the points in the inner one
find_base_by_generator(universe, gens) ==
    LET moved == {ij \in (1 .. Len(universe)) \X (1 .. Len(gens)) :
                     act_on(gens[ij[2]], universe[ij[1]]) # universe[ij[1]]}
    IN  IF moved = {}
        THEN None
        ELSE LET hit == CHOOSE ij \in moved : \A kl \in moved :
                            \/ ij[2] < kl[2]
                            \/ ij[2] = kl[2] /\ ij[1] <= kl[1]
             IN  Some(act_on(gens[hit[2]], universe[hit[1]]))

find_base(universe, gens) ==
    LET moved == {ij \in (1 .. Len(universe)) \X (1 .. Len(gens)) :
                     act_on(gens[ij[2]], universe[ij[1]]) # universe[ij[1]]}
    IN  IF moved = {}
        THEN None
        ELSE LET hit == CHOOSE ij \in moved : \A kl \in moved :
                            \/ ij[1] < kl[1]
                            \/ ij[1] = kl[1] /\ ij[2] <= kl[2]
             IN  Some(act_on(gens[hit[2]], universe[hit[1]]))

\* while gs.len() > 0; `panicked` when find_base returns None
RECURSIVE Group_new_loop(_, _, _)
Group_new_loop(universe, levels, gs) ==
    IF Len(gs) > 0
    THEN IF find_base(universe, gs) = None
         THEN [panicked |-> TRUE, levels |-> levels]
         ELSE LET made == BaseStrongGeneratorLevel_new(unwrap(find_base(universe, gs)), gs)
              IN  Group_new_loop(universe, Append(levels, made[1]), made[2])
    ELSE [panicked |-> FALSE, levels |-> levels]

Group_new(universe, gens) == Group_new_loop(universe, <<>>, gens)

\* a fold that adds the orbit lengths
RECURSIVE size_fold_sum(_, _)
size_fold_sum(levels, acc) ==
    IF levels = <<>> THEN acc ELSE size_fold_sum(Tail(levels), acc + length(Head(levels)))

RECURSIVE size_fold(_, _)
size_fold(levels, acc) ==
    IF levels = <<>> THEN acc ELSE size_fold(Tail(levels), acc * length(Head(levels)))
size(self) == size_fold(self.levels, 1)

\* a strip that multiplies by the transversal instead of its inverse
RECURSIVE strip_loop_uninverted(_, _)
strip_loop_uninverted(levels, candidate) ==
    IF levels = <<>>
    THEN candidate
    ELSE IF has_transversal_for(Head(levels), candidate)
         THEN strip_loop_uninverted(Tail(levels),
                  times(candidate, unwrap(level_transversal_for(Head(levels), candidate))))
         ELSE candidate

RECURSIVE strip_loop(_, _)
\* a loop that goes on to the next level when a level has no transversal
strip_loop_continuing(levels, candidate) ==
    IF levels = <<>>
    THEN candidate
    ELSE IF has_transversal_for(Head(levels), candidate)
         THEN strip_loop(Tail(levels),
                  times(candidate,
                        inverse(unwrap(level_transversal_for(Head(levels), candidate)))))
         ELSE strip_loop(Tail(levels), candidate)

strip_loop(levels, candidate) ==
    IF levels = <<>>
    THEN candidate
    ELSE IF has_transversal_for(Head(levels), candidate)
         THEN strip_loop(Tail(levels),
                  times(candidate,
                        inverse(unwrap(level_transversal_for(Head(levels), candidate)))))
         ELSE candidate

strip(self, g) == strip_loop(self.levels, g)
is_member(self, g) == is_identity(strip(self, g))

\* =================================================================== inputs
Symbols == {"a", "b"}
Exponents == {-1, 0, 1}
Primitives == Symbols \X Exponents
\* every (symbol, exponent) sequence of at most MaxLen pairs
ElementSeqs == UNION {[1 .. k -> Primitives] : k \in 0 .. MaxLen}
\* the sequences the right operand of a product is built from
RightSeqs == UNION {[1 .. k -> Primitives] : k \in 0 .. MaxLen - 1}

Points == 0 .. MaxPoint - 1
\* every injective HashMap<u64, u64> over the points, on any key set: the full
\* mappings of bijections, and mappings with keys missing or out of 0..n
ImageMaps ==
    UNION {{f \in [keys -> Points] : \A x, y \in keys : f[x] = f[y] => x = y} :
           keys \in SUBSET Points}

\* the permutation whose full mapping sends i to s[i+1]
FromSeq(s) == Permutation_new([i \in 0 .. Len(s) - 1 |-> s[i + 1]])

\* the bijections of {0..n-1}, each given as a full mapping
FullPermutations(n) ==
    {Permutation_new(f) : f \in {h \in [0 .. n - 1 -> 0 .. n - 1] :
                                    \A x, y \in 0 .. n - 1 : h[x] = h[y] => x = y}}

\* every way to write a transposition of two of the points 0..n-1 as a mapping:
\* the two swapped entries, and any of the fixed points as explicit entries
TranspositionWritings(n) ==
    UNION {{Permutation_new([k \in keys |-> IF k = t[1] THEN t[2]
                                            ELSE IF k = t[2] THEN t[1] ELSE k]) :
               keys \in {K \in SUBSET (0 .. n - 1) : t[1] \in K /\ t[2] \in K}} :
           t \in {u \in (0 .. n - 1) \X (0 .. n - 1) : u[1] < u[2]}}

\* lists of at most two generators on n points
GeneratorLists(n) == UNION {[1 .. k -> FullPermutations(n)] : k \in 0 .. 2}

\* the generators of d3() in the tests of mod.rs: (0 1) and (0 1 2)
D3Generators == <<FromSeq(<<1, 0, 2>>), FromSeq(<<1, 2, 0>>)>>

\* the generators of tests/member.rs: (0 1)(2 5)(3 4) and (0 1 2 3 4 5)
ExampleN == 6
D6Generators == <<FromSeq(<<1, 0, 5, 4, 3, 2>>), FromSeq(<<1, 2, 3, 4, 5, 0>>)>>

\* (SLP::Generator(i), p_i) for the i-th generator
Tagged(gens) == [i \in 1 .. Len(gens) |-> SLPPermutation_new(SLP_Generator(i - 1), gens[i])]

\* the action of g on the points a model element can mention
AllPoints == 0 .. (IF MaxN > ExampleN THEN MaxN ELSE ExampleN)
ActionOf(g) == [x \in AllPoints |-> act_on(g, x)]

\* the subgroup generated: the closure of the identity under the generators
RECURSIVE generated_by(_, _)
generated_by(S, G) ==
    LET next == S \cup {[x \in AllPoints |-> g[s[x]]] : s \in S, g \in G}
    IN  IF next = S THEN S ELSE generated_by(next, G)
Generated(gens) ==
    generated_by({[x \in AllPoints |-> x]}, {ActionOf(gens[i]) : i \in 1 .. Len(gens)})

\* the Permutations obtained from the generators by times and inverse (for the
\* generators that are Permutations: an SLPPermutation grows with every product)
RECURSIVE products_of(_, _)
products_of(S, gens) ==
    LET next == S \cup {times(s, gens[i]) : s \in S, i \in 1 .. Len(gens)}
                  \cup {inverse(s) : s \in S}
    IN  IF next = S THEN S ELSE products_of(next, gens)
Products(gens) ==
    IF gens = <<>> \/ IsSLPPermutation(gens[1])
    THEN {}
    ELSE products_of({gens[i] : i \in 1 .. Len(gens)}, gens)

\* the universe [0..n-1] as a Vec
Universe(n) == [i \in 1 .. n |-> i - 1]

\* the points 0..n-1 in every order
UniverseOrders(n) ==
    {u \in [1 .. n -> 0 .. n - 1] : \A i, j \in 1 .. n : u[i] = u[j] => i = j}

\* the (gset, generators) pairs Group::new is called with: Permutation generators
\* on every universe of up to MaxN points, the same generators as SLPPermutations
\* on MaxN points, and the generators of tests/member.rs
GroupInputs ==
    UNION {{<<Universe(n), gens>> : gens \in GeneratorLists(n)} : n \in 1 .. MaxN}
        \cup {<<Universe(MaxN), Tagged(gens)>> : gens \in GeneratorLists(MaxN) \ {<<>>}}
        \cup {<<Universe(ExampleN), D6Generators>>}

\* the elements handed to is_member and strip
ElementsFor(universe, gens) ==
    IF gens # <<>> /\ IsSLPPermutation(gens[1])
    THEN {SLPPermutation_new(SLP_Identity, p) : p \in FullPermutations(Len(universe))}
    ELSE IF Len(universe) = ExampleN
    THEN {Permutation_new([x \in 0 .. ExampleN - 1 |-> f[x]]) : f \in Generated(gens)}
            \cup TranspositionWritings(ExampleN + 1)
            \cup {FromSeq(<<0, 1, 3, 2, 4, 5>>), FromSeq(<<1, 0>>), FromSeq(<<0, 1, 3, 2>>)}
    ELSE UNION {FullPermutations(m) : m \in 0 .. MaxN} \cup TranspositionWritings(MaxN + 1)

\* SLP::Identity and the generators an SLP of the model may name
Leaves == {SLP_Identity} \cup {SLP_Generator(id) : id \in 0 .. MaxId - 1}
\* the operands of the model: a leaf, the inverse of one, the product of two
Operands ==
    Leaves \cup {SLP_inverse(g) : g \in Leaves}
           \cup {SLP_times(g, h) : g \in Leaves, h \in Leaves}
\* images of a morphism: those of morphism!, and Word::new(vec![('a', 0)])
ImageWords == {Word_generator(c) : c \in Symbols} \cup {Word_new(<<<<"a", 0>>>>)}
\* the morphisms: any set of generators, each with any image
Morphisms ==
    UNION {{Morphism_new(images) : images \in [keys -> ImageWords]} :
              keys \in SUBSET {SLP_Generator(id) : id \in 0 .. MaxId - 1}}

\* the elements of tests/slp.rs: (0 1 2 3) and (0 1)
SlpExample == <<FromSeq(<<1, 2, 3, 0>>), FromSeq(<<1, 0, 2, 3>>)>>
\* the elements registered with a factory
FactoryElements ==
    {SlpExample[i] : i \in 1 .. 2} \cup {D3Generators[i] : i \in 1 .. 2}

NoWord == [terms |-> <<>>]
NoPermutation == [n |-> 0, images |-> <<>>]

WordIdle ==
    /\ elements = <<>> /\ left = NoWord /\ right = NoWord /\ answer = NoWord
    /\ wop = "idle"
PermIdle ==
    /\ first = NoPermutation /\ second = NoPermutation /\ product = NoPermutation
    /\ pair = SLPPermutation_new(SLP_Identity, NoPermutation) /\ identical = FALSE
    /\ pop = "idle"
GroupIdle ==
    /\ gset = <<>> /\ generators = <<>> /\ group = [levels |-> <<>>]
    /\ status = "idle" /\ element = NoPermutation /\ stripped = NoPermutation
    /\ again = NoPermutation
    /\ member = FALSE /\ order = 0 /\ gop = "idle" /\ subgroup = {} /\ products = {}
    /\ depth = 0 /\ target = 0 /\ found = None
    /\ working = <<>>
SlpIdle ==
    /\ morphism = Morphism_new(<<>>) /\ term = SLP_Identity /\ factor = SLP_Identity
    /\ expression = SLP_Identity /\ how = "none" /\ literal = FALSE
    /\ word = Returned(NoWord) /\ sop = "idle"
FactoryIdle ==
    /\ collection = SLPCollection_new /\ words = <<>> /\ expected = <<>>
    /\ chosen = 0 /\ evaluated = NoPermutation /\ fop = "new"
    /\ factories = <<SLPCollection_new, SLPCollection_new>> /\ handles = <<>>
    /\ outcome = Returned(NoPermutation) /\ hop = "new"

\* ============================================================ words: SpecWord
WordInit == WordIdle /\ PermIdle /\ GroupIdle /\ SlpIdle /\ FactoryIdle

\* let left = Word::new(elems)
NewLeft ==
    /\ wop = "idle"
    /\ \E elems \in ElementSeqs :
           /\ elements' = elems
           /\ left' = Word_new(elems)
    /\ wop' = "new_left"
    /\ UNCHANGED <<right, answer>>

\* let right = Word::new(elems)
NewRight ==
    /\ wop = "new_left"
    /\ \E elems \in RightSeqs :
           /\ elements' = elems
           /\ right' = Word_new(elems)
    /\ wop' = "new_right"
    /\ UNCHANGED <<left, answer>>

\* let right = left.inverse()
InverseLeft ==
    /\ wop = "new_left"
    /\ right' = Word_inverse(left)
    /\ wop' = "inverse"
    /\ UNCHANGED <<elements, left, answer>>

\* let answer = left.times(&right)
Times ==
    /\ wop \in {"new_right", "inverse"}
    /\ answer' = Word_times(left, right)
    /\ wop' = IF wop = "inverse" THEN "times_inverse" ELSE "times"
    /\ UNCHANGED <<elements, left, right>>

WordNext ==
    /\ \/ NewLeft
       \/ NewRight
       \/ InverseLeft
       \/ Times
    /\ UNCHANGED permVars
    /\ UNCHANGED groupVars
    /\ UNCHANGED slpVars
    /\ UNCHANGED factoryVars
    /\ UNCHANGED chainVars
    /\ UNCHANGED sharedVars

SpecWord == WordInit /\ [][WordNext]_vars

\* ===================================================== permutations: SpecPerm
PermInit == WordIdle /\ PermIdle /\ GroupIdle /\ SlpIdle /\ FactoryIdle

\* let first = Permutation::new(images)
NewFirst ==
    /\ pop = "idle"
    /\ \E images \in ImageMaps : first' = Permutation_new(images)
    /\ pop' = "new_first"
    /\ UNCHANGED <<second, product, pair, identical>>

\* let second = Permutation::new(images)
NewSecond ==
    /\ pop = "new_first"
    /\ \E images \in ImageMaps : second' = Permutation_new(images)
    /\ pop' = "new_second"
    /\ UNCHANGED <<first, product, pair, identical>>

\* let second = first.inverse()
InverseFirst ==
    /\ pop = "new_first"
    /\ second' = Permutation_inverse(first)
    /\ pop' = "inverse"
    /\ UNCHANGED <<first, product, pair, identical>>

\* let product = first.times(&second)
PermTimes ==
    /\ pop \in {"new_second", "inverse"}
    /\ product' = Permutation_times(first, second)
    /\ pop' = IF pop = "inverse" THEN "times_inverse" ELSE "times"
    /\ UNCHANGED <<first, second, pair, identical>>

\* first.is_identity()
FirstIsIdentity ==
    /\ pop = "new_first"
    /\ identical' = Permutation_is_identity(first)
    /\ pop' = "is_identity"
    /\ UNCHANGED <<first, second, product, pair>>

\* product.is_identity(), for product = first.times(&first.inverse())
ProductIsIdentity ==
    /\ pop = "times_inverse"
    /\ identical' = Permutation_is_identity(product)
    /\ pop' = "product_is_identity"
    /\ UNCHANGED <<first, second, product, pair>>

\* let g = SLPPermutation::new(SLP::Generator(1), first);
\* let pair = g.times(&g.inverse()); pair.is_identity()
PairTimesInverse ==
    /\ pop = "new_first"
    /\ \E g \in {SLPPermutation_new(SLP_Generator(1), first)} :
           /\ pair' = SLPPermutation_times(g, SLPPermutation_inverse(g))
           /\ identical' = SLPPermutation_is_identity(
                               SLPPermutation_times(g, SLPPermutation_inverse(g)))
    /\ pop' = "pair_times_inverse"
    /\ UNCHANGED <<first, second, product>>

PermNext ==
    /\ \/ NewFirst
       \/ NewSecond
       \/ InverseFirst
       \/ PermTimes
       \/ FirstIsIdentity
       \/ ProductIsIdentity
       \/ PairTimesInverse
    /\ UNCHANGED wordVars
    /\ UNCHANGED groupVars
    /\ UNCHANGED slpVars
    /\ UNCHANGED factoryVars
    /\ UNCHANGED chainVars
    /\ UNCHANGED sharedVars

SpecPerm == PermInit /\ [][PermNext]_vars

\* ========================================================= the group: SpecGroup
GroupInit == WordIdle /\ PermIdle /\ GroupIdle /\ SlpIdle /\ FactoryIdle

\* let group = Group::new(universe, gens), for one of the model's inputs
NewGroup ==
    /\ status = "idle"
    /\ \E input \in GroupInputs :
           /\ gset' = input[1]
           /\ generators' = input[2]
           /\ \E made \in {Group_new(input[1], input[2])} :
                  /\ status' = IF made.panicked THEN "panicked" ELSE "built"
                  /\ group' = IF made.panicked THEN group ELSE [levels |-> made.levels]
           /\ subgroup' = Generated(input[2])
           /\ products' = Products(input[2])
    /\ gop' = "new"
    /\ UNCHANGED <<element, stripped, again, member, order, depth, target, found>>

\* group.size()
Size ==
    /\ status = "built" /\ gop = "new"
    /\ order' = size(group)
    /\ gop' = "size"
    /\ UNCHANGED <<gset, generators, group, status, element, stripped, again, member,
                   depth, target, found, subgroup, products>>

\* group.is_member(e)
IsMember ==
    /\ status = "built" /\ gop = "new"
    /\ \E e \in ElementsFor(gset, generators) :
           /\ element' = e
           /\ member' = is_member(group, e)
    /\ gop' = "is_member"
    /\ UNCHANGED <<gset, generators, group, status, stripped, again, order,
                   depth, target, found, subgroup, products>>

\* let stripped = group.strip(e)
Strip ==
    /\ status = "built" /\ gop = "new"
    /\ \E e \in ElementsFor(gset, generators) :
           /\ element' = e
           /\ stripped' = strip(group, e)
    /\ gop' = "strip"
    /\ UNCHANGED <<gset, generators, group, status, again, member, order,
                   depth, target, found, subgroup, products>>

\* let again = group.strip(stripped): the residue is stripped again
StripAgain ==
    /\ status = "built" /\ gop = "strip"
    /\ again' = strip(group, stripped)
    /\ gop' = "strip_again"
    /\ UNCHANGED <<gset, generators, group, status, element, stripped, member, order,
                   depth, target, found, subgroup, products>>

\* transversal_for(&start, &level.generators, &level.indices), for a level of
\* the group and a point of the universe or the first point beyond it
TransversalFor ==
    /\ status = "built" /\ gop = "new"
    /\ \E k \in 1 .. Len(group.levels), start \in 0 .. Len(gset) :
           /\ depth' = k
           /\ target' = start
           /\ found' = transversal_for(start, group.levels[k].generators,
                                       group.levels[k].indices)
    /\ gop' = "transversal_for"
    /\ UNCHANGED <<gset, generators, group, status, element, stripped, again, member,
                   order, subgroup, products>>

\* find_base(&gset, &gs), for the points of a universe in any order
FindBase ==
    /\ status = "idle"
    /\ \E n \in 1 .. MaxN :
           \E u \in UniverseOrders(n), gs \in GeneratorLists(n) :
               /\ gset' = u
               /\ generators' = gs
               /\ found' = find_base(u, gs)
    /\ status' = "searched"
    /\ gop' = "find_base"
    /\ UNCHANGED <<group, element, stripped, again, member, order, depth, target,
                   subgroup, products>>

GroupNext ==
    /\ \/ NewGroup
       \/ Size
       \/ IsMember
       \/ Strip
       \/ StripAgain
       \/ TransversalFor
       \/ FindBase
    /\ UNCHANGED wordVars
    /\ UNCHANGED permVars
    /\ UNCHANGED slpVars
    /\ UNCHANGED factoryVars
    /\ UNCHANGED chainVars
    /\ UNCHANGED sharedVars

SpecGroup == GroupInit /\ [][GroupNext]_vars

\* ================================================ SLPs and morphisms: SpecSLP
SlpInit == WordIdle /\ PermIdle /\ GroupIdle /\ SlpIdle /\ FactoryIdle

\* let morphism = Morphism::new(generator_images)
NewMorphism ==
    /\ sop = "idle"
    /\ morphism' \in Morphisms
    /\ sop' = "morphism"
    /\ UNCHANGED <<term, factor, expression, how, literal, word>>

\* let term = ...: an SLP written down with the constructors of the enum
NewTerm ==
    /\ sop = "morphism"
    /\ \E slp \in Operands :
           /\ term' = slp
           /\ expression' = slp
    /\ how' = "literal"
    /\ sop' = "term"
    /\ UNCHANGED <<morphism, factor, literal, word>>

\* let expression = term.times(&factor)
SlpTimes ==
    /\ sop = "term"
    /\ \E slp \in Operands :
           /\ factor' = slp
           /\ expression' = SLP_times(term, slp)
    /\ how' = "times"
    /\ sop' = "expression"
    /\ UNCHANGED <<morphism, term, literal, word>>

\* let expression = term.inverse()
SlpInverse ==
    /\ sop = "term"
    /\ expression' = SLP_inverse(term)
    /\ how' = "inverse"
    /\ sop' = "expression"
    /\ UNCHANGED <<morphism, term, factor, literal, word>>

\* expression.is_identity()
SlpIsIdentity ==
    /\ sop \in {"term", "expression"}
    /\ literal' = SLP_is_identity(expression)
    /\ sop' = "is_identity"
    /\ UNCHANGED <<morphism, term, factor, expression, how, word>>

\* let word = expression.transform(&morphism)
Transform ==
    /\ sop \in {"term", "expression"}
    /\ word' = SLP_transform(expression, morphism)
    /\ sop' = "transform"
    /\ UNCHANGED <<morphism, term, factor, expression, how, literal>>

SlpNext ==
    /\ \/ NewMorphism
       \/ NewTerm
       \/ SlpTimes
       \/ SlpInverse
       \/ SlpIsIdentity
       \/ Transform
    /\ UNCHANGED wordVars
    /\ UNCHANGED permVars
    /\ UNCHANGED groupVars
    /\ UNCHANGED factoryVars
    /\ UNCHANGED chainVars
    /\ UNCHANGED sharedVars

SpecSLP == SlpInit /\ [][SlpNext]_vars

\* ============================================= SLPWords of a factory: SpecFactory
\* let factory = SLPFactory::new()
FactoryInit == WordIdle /\ PermIdle /\ GroupIdle /\ SlpIdle /\ FactoryIdle

\* let u = factory.generator(g)
FactoryGenerator ==
    /\ fop # "evaluate" /\ Len(words) < MaxWords
    /\ \E g \in FactoryElements :
           \E result \in {SLPFactory_generator(collection, g)} :
               /\ collection' = result[1]
               /\ words' = Append(words, result[2])
               /\ expected' = Append(expected, g)
    /\ fop' = "generator"
    /\ UNCHANGED <<chosen, evaluated>>

\* let w = u.times(&v), for two words of the factory
WordTimes ==
    /\ fop # "evaluate" /\ Len(words) < MaxWords
    /\ \E i \in 1 .. Len(words), j \in 1 .. Len(words) :
           \E result \in {SLPWord_times(collection, words[i], words[j])} :
               /\ collection' = result[1]
               /\ words' = Append(words, result[2])
               /\ expected' = Append(expected, times(expected[i], expected[j]))
    /\ fop' = "times"
    /\ UNCHANGED <<chosen, evaluated>>

\* let w = u.inverse(), for a word of the factory
WordInverse ==
    /\ fop # "evaluate" /\ Len(words) < MaxWords
    /\ \E i \in 1 .. Len(words) :
           \E result \in {SLPWord_inverse(collection, words[i])} :
               /\ collection' = result[1]
               /\ words' = Append(words, result[2])
               /\ expected' = Append(expected, inverse(expected[i]))
    /\ fop' = "inverse"
    /\ UNCHANGED <<chosen, evaluated>>

\* let g = w.evaluate(), for a word of the factory; evaluate only borrows the
\* collection, so a run is followed up to its first evaluation
WordEvaluate ==
    /\ fop # "evaluate"
    /\ \E i \in 1 .. Len(words) :
           /\ chosen' = i
           /\ evaluated' = SLPWord_evaluate(collection, words[i])
    /\ fop' = "evaluate"
    /\ UNCHANGED <<collection, words, expected>>

FactoryNext ==
    /\ \/ FactoryGenerator
       \/ WordTimes
       \/ WordInverse
       \/ WordEvaluate
    /\ UNCHANGED wordVars
    /\ UNCHANGED permVars
    /\ UNCHANGED groupVars
    /\ UNCHANGED slpVars
    /\ UNCHANGED chainVars
    /\ UNCHANGED sharedVars

SpecFactory == FactoryInit /\ [][FactoryNext]_vars

\* ===================================== SLPWords of two factories: SpecFactories
\* let a = SLPFactory::new(); let b = SLPFactory::new()
FactoriesInit == WordIdle /\ PermIdle /\ GroupIdle /\ SlpIdle /\ FactoryIdle

\* an SLPWord with the factory whose collection it holds
Handle(k, w) == [factory |-> k, word |-> w]

\* let u = a.generator(g), or the same of b
SharedGenerator ==
    /\ hop # "evaluate" /\ Len(handles) < MaxWords
    /\ \E k \in 1 .. 2, i \in 1 .. 2 :
           \E result \in {SLPFactory_generator(factories[k], SlpExample[i])} :
               /\ factories' = [factories EXCEPT ![k] = result[1]]
               /\ handles' = Append(handles, Handle(k, result[2]))
    /\ hop' = "generator"
    /\ UNCHANGED outcome

\* let w = u.times(&v), for any two words: the product is registered in the
\* collection of u and holds the id of v, whichever collection v holds
SharedTimes ==
    /\ hop # "evaluate" /\ Len(handles) < MaxWords
    /\ \E i \in 1 .. Len(handles), j \in 1 .. Len(handles) :
           \E result \in {SLPWord_times(factories[handles[i].factory],
                                         handles[i].word, handles[j].word)} :
               /\ factories' = [factories EXCEPT ![handles[i].factory] = result[1]]
               /\ handles' = Append(handles, Handle(handles[i].factory, result[2]))
    /\ hop' = "times"
    /\ UNCHANGED outcome

\* let w = u.inverse()
SharedInverse ==
    /\ hop # "evaluate" /\ Len(handles) < MaxWords
    /\ \E i \in 1 .. Len(handles) :
           \E result \in {SLPWord_inverse(factories[handles[i].factory],
                                           handles[i].word)} :
               /\ factories' = [factories EXCEPT ![handles[i].factory] = result[1]]
               /\ handles' = Append(handles, Handle(handles[i].factory, result[2]))
    /\ hop' = "inverse"
    /\ UNCHANGED outcome

\* let g = w.evaluate(), for the word made last; a run is followed up to its
\* first evaluation
SharedEvaluate ==
    /\ hop # "evaluate" /\ Len(handles) > 0
    /\ outcome' = SLPWord_evaluate_call(factories[handles[Len(handles)].factory],
                                        handles[Len(handles)].word)
    /\ hop' = "evaluate"
    /\ UNCHANGED <<factories, handles>>

FactoriesNext ==
    /\ \/ SharedGenerator
       \/ SharedTimes
       \/ SharedInverse
       \/ SharedEvaluate
    /\ UNCHANGED wordVars
    /\ UNCHANGED permVars
    /\ UNCHANGED groupVars
    /\ UNCHANGED slpVars
    /\ UNCHANGED factoryVars
    /\ UNCHANGED chainVars

SpecFactories == FactoriesInit /\ [][FactoriesNext]_vars

\* ================================== the loop of Group::new, step by step: SpecChain
ChainInit == WordIdle /\ PermIdle /\ GroupIdle /\ SlpIdle /\ FactoryIdle

\* let mut levels = vec![]; let mut gs = generators;
ChainStart ==
    /\ status = "idle"
    /\ \E n \in 1 .. MaxN :
           \E gens \in GeneratorLists(n) :
               /\ gset' = Universe(n)
               /\ generators' = gens
               /\ working' = gens
    /\ group' = [levels |-> <<>>]
    /\ status' = "running"
    /\ gop' = "chain_start"
    /\ UNCHANGED <<element, stripped, again, member, order, depth, target, found,
                   subgroup, products>>

\* one turn of `while gs.len() > 0` in which find_base returns a base; a chain
\* that is already longer than the universe is not followed further
ChainStep ==
    /\ status = "running"
    /\ Len(working) > 0
    /\ find_base(gset, working) # None
    /\ Len(group.levels) <= Len(gset)
    /\ \E made \in {BaseStrongGeneratorLevel_new(unwrap(find_base(gset, working)), working)} :
           /\ group' = [levels |-> Append(group.levels, made[1])]
           /\ working' = made[2]
    /\ gop' = "chain_step"
    /\ UNCHANGED <<gset, generators, status, element, stripped, again, member, order,
                   depth, target, found, subgroup, products>>

\* the turn in which find_base returns None and expect panics
ChainAbort ==
    /\ status = "running"
    /\ Len(working) > 0
    /\ find_base(gset, working) = None
    /\ status' = "panicked"
    /\ gop' = "chain_abort"
    /\ UNCHANGED <<gset, generators, group, element, stripped, again, member, order,
                   depth, target, found, subgroup, products, working>>

\* gs.len() == 0: Group { levels: levels }
ChainReturn ==
    /\ status = "running"
    /\ Len(working) = 0
    /\ status' = "built"
    /\ gop' = "chain_return"
    /\ UNCHANGED <<gset, generators, group, element, stripped, again, member, order,
                   depth, target, found, subgroup, products, working>>

ChainNext ==
    /\ \/ ChainStart
       \/ ChainStep
       \/ ChainAbort
       \/ ChainReturn
    /\ UNCHANGED wordVars
    /\ UNCHANGED permVars
    /\ UNCHANGED slpVars
    /\ UNCHANGED factoryVars
    /\ UNCHANGED sharedVars

\* the part of ChainNext that is not a turn of the loop body
ChainFrame ==
    /\ UNCHANGED wordVars
    /\ UNCHANGED permVars
    /\ UNCHANGED slpVars
    /\ UNCHANGED factoryVars
    /\ UNCHANGED sharedVars

\* the guard of ChainStep: the loop body can be run from this state
ChainCanStep ==
    /\ status = "running"
    /\ Len(working) > 0
    /\ find_base(gset, working) # None
    /\ Len(group.levels) <= Len(gset)

\* Group::new is sequential code: a turn that can be taken is taken. For the
\* loop body this weak fairness is written with its enabling condition spelled
\* out as the guard of ChainStep
ChainFair ==
    /\ WF_vars((ChainStart \/ ChainAbort \/ ChainReturn) /\ ChainFrame)
    /\ ([]<>(~ChainCanStep)) \/ ([]<><<ChainStep /\ ChainFrame>>_vars)

SpecChain == ChainInit /\ [][ChainNext]_vars /\ ChainFair

\* ===================================================== properties of words
\* no stored pair has exponent 0 and no two adjacent stored pairs share a symbol
Reduced(terms) ==
    /\ \A i \in 1 .. Len(terms) : terms[i][2] # 0
    /\ \A i \in 1 .. Len(terms) - 1 : terms[i][1] # terms[i + 1][1]

\* the sequence without its i-th pair
Without(terms, i) == SubSeq(terms, 1, i - 1) \o SubSeq(terms, i + 1, Len(terms))

\* The free reduction, by the two rewriting rules themselves: delete a pair with
\* exponent 0, merge two adjacent pairs with the same symbol, until neither
\* applies. The rules are confluent, so taking the leftmost redex gives the
\* unique normal form.
RECURSIVE FreeReduction(_)
FreeReduction(terms) ==
    LET zeros == {i \in 1 .. Len(terms) : terms[i][2] = 0}
        pairs == {i \in 1 .. Len(terms) - 1 : terms[i][1] = terms[i + 1][1]}
        least(S) == CHOOSE i \in S : \A j \in S : i <= j
    IN  IF zeros # {}
        THEN FreeReduction(Without(terms, least(zeros)))
        ELSE IF pairs # {}
        THEN FreeReduction(
                 [Without(terms, least(pairs)) EXCEPT ![least(pairs)] =
                     <<terms[least(pairs)][1],
                       terms[least(pairs)][2] + terms[least(pairs) + 1][2]>>])
        ELSE terms

\* C6: every Word obtained through Word::new, times and inverse (identity and
\* generator are Word::new on sequences of length 0 and 1) is stored fully
\* free-reduced: no pair with exponent 0, no two adjacent pairs with one symbol.
C6_stored_words_are_reduced ==
    /\ Reduced(left.terms)
    /\ Reduced(right.terms)
    /\ Reduced(answer.terms)

\* C7: Word::new on any sequence, and u.times(v) for all words u and v, equal
\* the unique free reduction of the (concatenated) term sequence.
C7_new_and_times_are_the_free_reduction ==
    /\ wop = "new_left" => left.terms = FreeReduction(elements)
    /\ wop = "new_right" => right.terms = FreeReduction(elements)
    /\ wop \in {"times", "times_inverse"} =>
           answer.terms = FreeReduction(left.terms \o right.terms)

\* C8: for every word w built by Word::new, w.times(w.inverse()) is the identity
\* word: its term sequence is empty and is_identity() returns true.
C8_times_inverse_is_identity ==
    wop = "times_inverse" =>
        /\ left = Word_new(elements)
        /\ right = Word_inverse(left)
        /\ answer.terms = <<>>
        /\ Word_is_identity(answer)

\* a word of the longest input, with terms left after normalizing, was
\* multiplied by its inverse
C8_witness ==
    /\ wop = "times_inverse"
    /\ Len(elements) = MaxLen
    /\ Len(left.terms) >= 2
    /\ answer = Word_times(left, right)

\* C9: normalize is idempotent: normalize(normalize(w)) = normalize(w) for every
\* sequence w of (symbol, exponent) pairs handed to Word::new.
C9_normalize_is_idempotent ==
    wop \in {"new_left", "new_right"} =>
        normalize(normalize(elements)) = normalize(elements)

\* a sequence of the longest input that normalize changed, but not to nothing
C9_witness ==
    /\ wop = "new_left"
    /\ Len(elements) = MaxLen
    /\ left.terms = normalize(elements)
    /\ left.terms # elements
    /\ left.terms # <<>>

\* ============================================== properties of permutations
\* the mapping handed to Permutation::new has exactly the keys 0..n-1
FullMapping(self) == DOMAIN self.images = 0 .. self.n - 1

\* the points the law is tried at: one more than a mapping can mention
LawPoints == 0 .. MaxPoint

\* C10 as stated: for all Permutations a and b built by Permutation::new from
\* any mapping, and every point p, a.times(b).act_on(p) = b.act_on(a.act_on(p)).
C10_times_acts_left_to_right_for_every_mapping ==
    pop = "times" =>
        \A p \in LawPoints :
            Permutation_act_on(product, p)
                = Permutation_act_on(second, Permutation_act_on(first, p))

\* C10, amended: for all Permutations a and b built by Permutation::new from
\* mappings whose keys are exactly 0..n-1 (n the number of entries; a and b may
\* have different n) and every point p,
\* a.times(b).act_on(p) = b.act_on(a.act_on(p)).
C10_times_acts_left_to_right ==
    pop = "times" /\ FullMapping(first) /\ FullMapping(second) =>
        \A p \in LawPoints :
            Permutation_act_on(product, p)
                = Permutation_act_on(second, Permutation_act_on(first, p))

\* two full mappings of different n were multiplied, and some point is moved by
\* the first and its image is moved by the second
C10_witness ==
    /\ pop = "times"
    /\ FullMapping(first) /\ FullMapping(second)
    /\ first.n # second.n
    /\ product = Permutation_times(first, second)
    /\ \E p \in LawPoints :
           /\ Permutation_act_on(first, p) # p
           /\ Permutation_act_on(second, Permutation_act_on(first, p))
                  # Permutation_act_on(first, p)

\* ================================================ properties of the group
\* the generators, and so the elements of the group, are Permutations
PermutationKind == generators = <<>> \/ ~IsSLPPermutation(generators[1])

\* g acts like an element of the generated subgroup
InSubgroup(g) == ActionOf(g) \in subgroup

\* the permutation an SLP stands for: Generator(i) is the permutation of the
\* i-th generator, Product and Inverse are times and inverse of Permutation
RECURSIVE evaluate(_, _)
evaluate(slp, gens) ==
    CASE slp.tag = "Identity" -> Permutation_new(<<>>)
      [] slp.tag = "Generator" -> gens[slp.id + 1].element[2]
      [] slp.tag = "Product" ->
             Permutation_times(evaluate(slp.left, gens), evaluate(slp.right, gens))
      [] slp.tag = "Inverse" -> Permutation_inverse(evaluate(slp.term, gens))

\* two Permutations act alike, whatever their mappings
ActAlike(p, q) ==
    \A x \in AllPoints : Permutation_act_on(p, x) = Permutation_act_on(q, x)

\* the SLP and the Permutation of an SLPPermutation act alike
Agree(g, gens) == ActAlike(evaluate(g.element[1], gens), g.element[2])

\* C1: for every non-empty list of generators that are full mappings of
\* bijections of {0..n-1}, not all the identity, with the universe [0..n-1],
\* size() is the number of elements of the subgroup they generate: 6 for the
\* generators of d3(), 12 for (0 1)(2 5)(3 4) and (0 1 2 3 4 5).
C1_size_is_the_order_of_the_subgroup ==
    gop = "size" /\ PermutationKind /\ generators # <<>> =>
        /\ order = Cardinality(subgroup)
        /\ order = Cardinality(products)
        /\ generators = D3Generators => order = 6
        /\ generators = D6Generators => order = 12

\* the order of the group of tests/member.rs was computed from two levels
C1_witness ==
    /\ gop = "size"
    /\ generators = D6Generators
    /\ Len(group.levels) = 2
    /\ order = size(group)
    /\ order = 12

\* C2: for every group built from Permutation generators, every Permutation
\* that times and inverse make of the generators is a member.
C2_products_of_generators_are_members ==
    gop = "is_member" /\ PermutationKind /\ element \in products =>
        member = TRUE

\* a product other than the identity was tested against a chain of two levels
C2_witness ==
    /\ gop = "is_member"
    /\ PermutationKind
    /\ Len(group.levels) >= 2
    /\ element \in products
    /\ ~Permutation_is_identity(element)
    /\ \A i \in 1 .. Len(generators) : element # generators[i]
    /\ member = is_member(group, element)

\* every key of the mapping of e is a point of the universe [0..n-1]
KeysWithin(e, universe) ==
    \A k \in DOMAIN e.images : k < Len(universe)

\* C3 as stated: for every group built from Permutation generators and every
\* Permutation e that does not lie in the generated subgroup, however its
\* mapping is written, is_member(e) returns false.
C3_others_are_not_members_however_written ==
    gop = "is_member" /\ PermutationKind /\ generators # <<>> /\ ~InSubgroup(element) =>
        member = FALSE

\* C3, amended: for every group built from generators that are full mappings
\* of bijections of {0..n-1}, with the universe [0..n-1], and every Permutation
\* e outside the generated subgroup that is given as a full mapping (its keys
\* are exactly 0..m-1, for any m), is_member(e) returns false; for the group of
\* tests/member.rs so does a transposition of two of the six points, however
\* it is written with keys among the six points.
C3_others_are_not_members ==
    gop = "is_member" /\ PermutationKind /\ ~InSubgroup(element) =>
        /\ FullMapping(element) => member = FALSE
        /\ generators = D6Generators /\ KeysWithin(element, gset) => member = FALSE

\* a transposition of two of the six points, written with its two entries only,
\* was tested against the group of tests/member.rs
C3_witness ==
    /\ gop = "is_member"
    /\ generators = D6Generators
    /\ element.n = 2 /\ ~FullMapping(element)
    /\ KeysWithin(element, gset)
    /\ ~InSubgroup(element)
    /\ member = is_member(group, element)

\* C4 as stated: strip(strip(e)) = strip(e) under the equality of the element
\* type, for Permutations and for SLPPermutations.
C4_strip_is_idempotent_for_every_element_type ==
    gop = "strip_again" => again = stripped

\* C4, amended: for Permutations strip(strip(e)) = strip(e); for
\* SLPPermutations the Permutation components of strip(strip(e)) and strip(e)
\* are equal.
C4_strip_is_idempotent ==
    gop = "strip_again" =>
        IF IsSLPPermutation(stripped)
        THEN again.element[2] = stripped.element[2]
        ELSE again = stripped

\* a Permutation outside the group was changed by strip, along a chain of two
\* levels, and its residue was stripped again
C4_witness ==
    /\ gop = "strip_again"
    /\ PermutationKind
    /\ Len(group.levels) >= 2
    /\ stripped = strip(group, element)
    /\ stripped # element
    /\ ~Permutation_is_identity(stripped)
    /\ again = strip(group, stripped)

\* C5: for a group built from generators (SLP::Generator(i), p_i) and an
\* element (SLP::Identity, p) with p in the generated group, strip returns a
\* residue whose Permutation is the identity and whose SLP, evaluated on the
\* p_i and inverted, acts like p; and the SLP and the Permutation of every
\* SLPPermutation that times and inverse made (the generators of every level,
\* the transversal of every orbit point) agree.
C5_strip_certifies_membership ==
    /\ gop = "strip" /\ ~PermutationKind /\ InSubgroup(element) =>
           /\ Permutation_is_identity(stripped.element[2])
           /\ ActAlike(Permutation_inverse(evaluate(stripped.element[1], generators)),
                       element.element[2])
    /\ gop = "new" /\ status = "built" /\ ~PermutationKind =>
           \A k \in 1 .. Len(group.levels) :
               /\ \A i \in 1 .. Len(group.levels[k].generators) :
                      Agree(group.levels[k].generators[i], generators)
               /\ \A x \in DOMAIN group.levels[k].indices :
                      Agree(unwrap(transversal_for(x, group.levels[k].generators,
                                                   group.levels[k].indices)),
                            generators)

\* an element of the group other than the identity was stripped to the
\* identity along a chain of two levels
C5_witness ==
    /\ gop = "strip"
    /\ ~PermutationKind
    /\ Len(group.levels) >= 2
    /\ element.element[1] = SLP_Identity
    /\ InSubgroup(element)
    /\ ~Permutation_is_identity(element.element[2])
    /\ stripped = strip(group, element)
    /\ stripped.element[1] # SLP_Identity

\* ========================================= further properties of permutations
\* x fixes every point a mapping of the model can mention, and one more
FixesEveryPoint(x) == \A p \in LawPoints : Permutation_act_on(x, p) = p

\* with the points absent from the mapping fixed, x is a bijection of the points
Bijective(x) ==
    \A p, q \in LawPoints :
        Permutation_act_on(x, p) = Permutation_act_on(x, q) => p = q

\* C11 as stated: for every Permutation x built by Permutation::new from any
\* mapping, x.is_identity() is true if and only if x fixes every point.
C11_is_identity_iff_every_point_is_fixed_for_every_mapping ==
    pop = "is_identity" => (identical <=> FixesEveryPoint(first))

\* C11, amended: for every Permutation x built by Permutation::new from a
\* mapping whose keys are exactly 0..n-1, x.is_identity() is true if and only
\* if x fixes every point.
C11_is_identity_iff_every_point_is_fixed ==
    pop = "is_identity" /\ FullMapping(first) =>
        (identical <=> FixesEveryPoint(first))

\* is_identity answered true for a full mapping with entries, and false for one
\* (the two states are told apart by `identical`; this one is the true answer)
C11_witness ==
    /\ pop = "is_identity"
    /\ FullMapping(first)
    /\ first.n = MaxPoint
    /\ identical = Permutation_is_identity(first)
    /\ identical

C13_transform_is_a_homomorphism ==
    sop = "transform" =>
        /\ how = "times" =>
               LET a == SLP_transform(term, morphism)
                   b == SLP_transform(factor, morphism)
               IN  /\ word.panicked <=> (a.panicked \/ b.panicked)
                   /\ ~word.panicked => word.value = Word_times(a.value, b.value)
        /\ how = "inverse" =>
               LET a == SLP_transform(term, morphism)
               IN  /\ word.panicked <=> a.panicked
                   /\ ~word.panicked => word.value = Word_inverse(a.value)
        /\ expression = [tag |-> "Identity"] => word = Returned([terms |-> <<>>])

\* the product of an inverse and a product was transformed into a word of two
\* terms
C13_witness ==
    /\ sop = "transform" /\ how = "times"
    /\ term.tag = "Inverse" /\ factor.tag = "Product"
    /\ ~word.panicked
    /\ Len(word.value.terms) = 2

\* C14: the SLP operations are purely structural: a.times(b) is exactly
\* Product(a, b), a.inverse() is exactly Inverse(a), and is_identity() is true
\* only for the literal Identity, so it is false for every result of times or
\* inverse.
C14_slp_operations_are_structural ==
    /\ how = "times" =>
           expression = [tag |-> "Product", left |-> term, right |-> factor]
    /\ how = "inverse" => expression = [tag |-> "Inverse", term |-> term]
    /\ sop = "is_identity" =>
           /\ literal <=> expression = [tag |-> "Identity"]
           /\ how \in {"times", "inverse"} => ~literal

\* Identity.times(Identity) was asked whether it is the identity
C14_witness ==
    /\ sop = "is_identity" /\ how = "times"
    /\ term = SLP_Identity /\ factor = SLP_Identity
    /\ literal = SLP_is_identity(expression)

\* the Generator leaves of an SLP
RECURSIVE GeneratorsOf(_)
GeneratorsOf(slp) ==
    IF slp.tag = "Identity" THEN {}
    ELSE IF slp.tag = "Generator" THEN {slp}
    ELSE IF slp.tag = "Product" THEN GeneratorsOf(slp.left) \cup GeneratorsOf(slp.right)
    ELSE GeneratorsOf(slp.term)

\* C15: transform aborts, and returns no Word, exactly when the SLP contains a
\* Generator that has no image in the morphism; otherwise it returns normally.
C15_transform_aborts_iff_a_generator_has_no_image ==
    sop = "transform" =>
        (word.panicked <=>
            \E g \in GeneratorsOf(expression) : g \notin DOMAIN morphism.generator_images)

\* a product whose left operand has all its images and whose right operand has
\* a generator without one was transformed, and the transform aborted
C15_witness ==
    /\ sop = "transform" /\ how = "times"
    /\ GeneratorsOf(term) # {}
    /\ GeneratorsOf(term) \subseteq DOMAIN morphism.generator_images
    /\ ~(GeneratorsOf(factor) \subseteq DOMAIN morphism.generator_images)
    /\ word = Panicked

\* ====================================== further properties of the group chain
\* no generator of the list moves a point of the universe
MovesNothing(universe, gens) ==
    \A i \in 1 .. Len(gens) : \A j \in 1 .. Len(universe) :
        act_on(gens[i], universe[j]) = universe[j]

\* C16: Group construction from a generating set that moves no point of the
\* universe, whether the set is empty or holds identities only, aborts instead
\* of returning a chain with no levels.
C16_generators_that_move_nothing_abort ==
    gop = "new" /\ MovesNothing(gset, generators) => status = "panicked"

\* ===================================================== properties of SLPWords
\* C17: for SLPWords created from one SLPFactory, evaluate() of a word built
\* from generator words by times and inverse is the element obtained by
\* applying the same operations to the registered elements.
C17_evaluate_is_the_element_the_word_stands_for ==
    fop = "evaluate" => evaluated = expected[chosen]

\* the inverse of the product of two generator words, u.times(&v).inverse() of
\* tests/slp.rs, was evaluated
C17_witness ==
    /\ fop = "evaluate"
    /\ Len(words) = 4 /\ chosen = 4
    /\ expected[1] = SlpExample[1] /\ expected[2] = SlpExample[2]
    /\ collection.associations[2] = SLPElement_Product(0, 1)
    /\ collection.associations[3] = SLPElement_Inverse(2)
    /\ evaluated = FromSeq(<<0, 3, 1, 2>>)

\* the walk from p back along the indices reaches the sentinel within `fuel` steps
RECURSIVE WalkReaches(_, _, _)
WalkReaches(p, level, fuel) ==
    /\ p \in DOMAIN level.indices
    /\ \/ level.indices[p] = -1
       \/ /\ fuel > 0
          /\ level.indices[p] \in 0 .. Len(level.generators) - 1
          /\ WalkReaches(act_on(inverse(level.generators[level.indices[p] + 1]), p),
                         level, fuel - 1)

\* the action of the product, left to right, of the generators along the path
\* of the indices from the base to p
RECURSIVE PathAction(_, _)
PathAction(p, level) ==
    IF level.indices[p] = -1
    THEN [x \in AllPoints |-> x]
    ELSE LET g == ActionOf(level.generators[level.indices[p] + 1])
             q == CHOOSE y \in AllPoints : g[y] = p
             before == PathAction(q, level)
         IN  [x \in AllPoints |-> g[before[x]]]

\* C18: transversal_for(point) returns None exactly when point is not a key of
\* the Schreier vector; otherwise the walk back from point reaches the sentinel
\* and the answer u is the left-to-right product of the generators along the
\* path from the base to point, with u.act_on(base) == point.
C18_transversal_is_the_product_along_the_path ==
    gop = "transversal_for" =>
        LET level == group.levels[depth]
        IN  /\ found = None <=> target \notin DOMAIN level.indices
            /\ target \in DOMAIN level.indices =>
                   /\ WalkReaches(target, level, Cardinality(DOMAIN level.indices))
                   /\ ActionOf(unwrap(found)) = PathAction(target, level)
                   /\ act_on(unwrap(found), level.base) = target

\* a transversal along a path of two generators was returned
C18_witness ==
    /\ gop = "transversal_for"
    /\ found # None
    /\ LET level == group.levels[depth]
           last == level.generators[level.indices[target] + 1]
       IN  /\ level.indices[target] # -1
           /\ level.indices[act_on(inverse(last), target)] # -1
           /\ act_on(unwrap(found), level.base) = target

\* the orbit of a point: its closure under the generators
RECURSIVE orbit_from(_, _)
orbit_from(seen, gens) ==
    LET next == seen \cup {act_on(gens[i], p) : i \in 1 .. Len(gens), p \in seen}
    IN  IF next = seen THEN seen ELSE orbit_from(next, gens)
OrbitOf(base, gens) == orbit_from({base}, gens)

\* the points in the order a breadth-first search from the base discovers them,
\* each with the index of the generator that led to it (-1 for the base): the
\* k-th point of the order is expanded with every generator in turn
RECURSIVE discover_with(_, _, _, _)
discover_with(found_so_far, p, i, gens) ==
    IF i > Len(gens)
    THEN found_so_far
    ELSE LET image == act_on(gens[i], p)
         IN  IF \E n \in 1 .. Len(found_so_far) : found_so_far[n][1] = image
             THEN discover_with(found_so_far, p, i + 1, gens)
             ELSE discover_with(Append(found_so_far, <<image, i - 1>>), p, i + 1, gens)
RECURSIVE discover(_, _, _)
discover(found_so_far, k, gens) ==
    IF k > Len(found_so_far)
    THEN found_so_far
    ELSE discover(discover_with(found_so_far, found_so_far[k][1], 1, gens), k + 1, gens)
Discovery(base, gens) == discover(<<<<base, -1>>>>, 1, gens)

\* the generators and the Schreier generators each level was built from and
\* returned: the generators of a level are the Schreier generators of the level
\* before it, and the last level returned none
SchreierGenerators(k) ==
    IF k < Len(group.levels) THEN group.levels[k + 1].generators ELSE <<>>

\* C19: after BaseStrongGeneratorLevel::new the keys of the Schreier vector are
\* exactly the orbit of the base; the base is the only key mapped to -1; every
\* other key p maps to the index i written at its first discovery in
\* breadth-first order, generators[i] taking an earlier discovered point to p;
\* length() is the size of the orbit.
C19_schreier_vector_is_the_breadth_first_tree_of_the_orbit ==
    gop = "new" /\ status = "built" =>
        \A k \in 1 .. Len(group.levels) :
            LET level == group.levels[k]
                orbit == OrbitOf(level.base, level.generators)
                bfs == Discovery(level.base, level.generators)
            IN  /\ DOMAIN level.indices = orbit
                /\ \A p \in orbit : level.indices[p] = -1 <=> p = level.base
                /\ \A n \in 1 .. Len(bfs) :
                       /\ level.indices[bfs[n][1]] = bfs[n][2]
                       /\ n > 1 => \E m \in 1 .. n - 1 :
                              act_on(level.generators[bfs[n][2] + 1], bfs[m][1])
                                  = bfs[n][1]
                /\ {bfs[n][1] : n \in 1 .. Len(bfs)} = orbit
                /\ length(level) = Cardinality(orbit)

\* a level whose orbit has a point that the base does not reach in one step
C19_witness ==
    /\ gop = "new" /\ status = "built"
    /\ \E k \in 1 .. Len(group.levels) :
           LET level == group.levels[k]
           IN  \E p \in DOMAIN level.indices :
                   /\ level.indices[p] # -1
                   /\ act_on(level.generators[level.indices[p] + 1], level.base) # p
                   /\ length(level) = Cardinality(OrbitOf(level.base, level.generators))

\* C20: the Schreier generators BaseStrongGeneratorLevel::new returns for
\* permutation generators are non-identity elements that fix the base, without
\* duplicates, and generate exactly the stabilizer of the base in the group the
\* level's generators generate (none exactly when that stabilizer is trivial).
C20_schreier_generators_generate_the_stabilizer ==
    gop = "new" /\ status = "built" =>
        \A k \in 1 .. Len(group.levels) :
            LET level == group.levels[k]
                returned == SchreierGenerators(k)
                made == BaseStrongGeneratorLevel_new(level.base, level.generators)
                stabilizer == {f \in Generated(level.generators) :
                                  f[level.base] = level.base}
            IN  /\ made[1] = level /\ made[2] = returned
                /\ \A i \in 1 .. Len(returned) :
                       /\ ~is_identity(returned[i])
                       /\ act_on(returned[i], level.base) = level.base
                       /\ \A j \in 1 .. Len(returned) : returned[i] = returned[j] => i = j
                /\ Generated(returned) = stabilizer
                /\ returned = <<>> <=> Cardinality(stabilizer) = 1

\* a level of Permutations returned Schreier generators, and the next level
\* was built from them
C20_witness ==
    /\ gop = "new" /\ status = "built"
    /\ Len(group.levels) >= 2
    /\ ~IsSLPPermutation(generators[1])
    /\ Len(SchreierGenerators(1)) >= 1
    /\ Len(group.levels[1].generators) = 2
    /\ SchreierGenerators(1) =
           BaseStrongGeneratorLevel_new(group.levels[1].base, generators)[2]

\* some generator of the list moves the point
Moved(gens, x) == \E i \in 1 .. Len(gens) : act_on(gens[i], x) # x

\* C21: find_base scans the universe in the supplied order and, for each point,
\* the generators in declaration order: for the first point x that some
\* generator moves it returns the image of x under the first generator that
\* moves x, not x itself, and it returns no base only when no generator moves
\* any point of the universe.
C21_find_base_returns_the_image_of_the_first_moved_point ==
    gop = "find_base" =>
        /\ found = None <=> \A j \in 1 .. Len(gset) : ~Moved(generators, gset[j])
        /\ found # None =>
               \E j \in 1 .. Len(gset), i \in 1 .. Len(generators) :
                   /\ \A earlier \in 1 .. j - 1 : ~Moved(generators, gset[earlier])
                   /\ \A before \in 1 .. i - 1 :
                          act_on(generators[before], gset[j]) = gset[j]
                   /\ act_on(generators[i], gset[j]) # gset[j]
                   /\ unwrap(found) = act_on(generators[i], gset[j])
                   /\ unwrap(found) # gset[j]

\* the first moved point is not the first point of the universe, its first
\* moving generator is not the first generator, and the universe is not in
\* ascending order
C21_witness ==
    /\ gop = "find_base" /\ found # None
    /\ Len(generators) = 2
    /\ ~Moved(generators, gset[1])
    /\ Len(gset) = MaxN /\ gset[2] < gset[1]
    /\ act_on(generators[1], gset[2]) = gset[2]
    /\ unwrap(found) = act_on(generators[2], gset[2])

\* the candidate of strip after the first k levels of the chain, for k no
\* larger than the number of levels applied
RECURSIVE CandidateAfter(_, _, _)
CandidateAfter(chain, e, k) ==
    IF k = 0
    THEN e
    ELSE LET before == CandidateAfter(chain, e, k - 1)
             level == chain[k]
         IN  times(before,
                   inverse(unwrap(transversal_for(act_on(before, level.base),
                                                  level.generators, level.indices))))

\* the number of levels strip applies to e: the levels before the first one
\* whose orbit does not contain the candidate's image of the base
RECURSIVE applied_from(_, _, _)
applied_from(chain, e, k) ==
    IF k >= Len(chain) THEN k
    ELSE IF act_on(CandidateAfter(chain, e, k), chain[k + 1].base)
                \in DOMAIN chain[k + 1].indices
         THEN applied_from(chain, e, k + 1)
         ELSE k
Applied(chain, e) == applied_from(chain, e, 0)

\* C22 as stated: strip visits the levels in chain order, multiplying the
\* candidate by the inverse of the transversal for its image of the level's
\* base; it stops at the first level whose orbit does not contain that image and
\* returns the candidate as it is then; the residue fixes the base of every
\* level that was applied.
C22_strip_applies_the_levels_in_order_and_fixes_their_bases ==
    gop = "strip" =>
        LET applied == Applied(group.levels, element)
        IN  /\ stripped = CandidateAfter(group.levels, element, applied)
            /\ \A k \in 1 .. applied :
                   act_on(stripped, group.levels[k].base) = group.levels[k].base

\* an element was stripped by the first level and stopped at the second
C22_witness ==
    /\ gop = "strip"
    /\ Len(group.levels) >= 2
    /\ Applied(group.levels, element) = 1
    /\ stripped # element
    /\ act_on(stripped, group.levels[1].base) = group.levels[1].base

\* ============================================ termination of the construction
\* every generator of the list fixes the base of every level of the chain
FixBases(gens, chain) ==
    \A i \in 1 .. Len(gens) : \A j \in 1 .. Len(chain) :
        act_on(gens[i], chain[j].base) = chain[j].base

\* while Group::new runs and after it: the generators of each level and the
\* working generating set fix the bases of all earlier levels, the bases are
\* pairwise distinct and there are at most as many levels as points
ChainBounded ==
    /\ \A k \in 1 .. Len(group.levels) :
           FixBases(group.levels[k].generators, SubSeq(group.levels, 1, k - 1))
    /\ FixBases(working, group.levels)
    /\ \A j, k \in 1 .. Len(group.levels) :
           group.levels[j].base = group.levels[k].base => j = k
    /\ Len(group.levels) <= Len(gset)
    /\ status = "built" => Group_new(gset, generators) =
                               [panicked |-> FALSE, levels |-> group.levels]
    /\ status = "panicked" => Group_new(gset, generators).panicked

\* C23: for every list of generators that are bijections of {0..n-1} given as
\* full mappings, with universe [0..n-1], Group::new terminates, returning a
\* chain or aborting: every level's generators fix the bases of all earlier
\* levels, so the bases are pairwise distinct and the chain has at most n levels
\* before the working generating set is empty.
C23_group_new_terminates_within_n_levels ==
    /\ [](status \in {"running", "built", "panicked"} => ChainBounded)
    /\ <>(status \in {"built", "panicked"})

\* the loop returned a chain of MaxN - 1 levels
C23_witness ==
    /\ gop = "chain_return" /\ status = "built"
    /\ Len(gset) = MaxN
    /\ Len(group.levels) = MaxN - 1
    /\ working = <<>>

\* ================================================ properties of collections
\* the ids of a collection are 0 .. next_id - 1, each Generator entry has its
\* element, and each Product or Inverse entry refers to smaller ids only
WellFounded(c) ==
    /\ DOMAIN c.associations = 0 .. c.next_id - 1
    /\ \A i \in DOMAIN c.associations :
           LET elem == c.associations[i]
           IN  IF elem.tag = "Generator" THEN elem.id = i /\ i \in DOMAIN c.evaluator
               ELSE IF elem.tag = "Product"
               THEN elem.left_id \in 0 .. i - 1 /\ elem.right_id \in 0 .. i - 1
               ELSE elem.id \in 0 .. i - 1

\* a call leaves every entry registered before it as it was
AppendOnly ==
    \A k \in 1 .. 2 : \A i \in DOMAIN factories[k].associations :
        /\ i \in DOMAIN factories'[k].associations
        /\ factories'[k].associations[i] = factories[k].associations[i]

\* C24: after any sequence of SLPFactory::generator, SLPWord::times and
\* SLPWord::inverse calls on any SLPWords, whichever factory made them, the ids
\* of each collection are consecutive from 0, registered entries never change,
\* every Product or Inverse stored under id i refers only to smaller ids of the
\* same collection, and evaluate() returns an element.
C24_collection_is_append_only_and_acyclic ==
    /\ [](/\ \A k \in 1 .. 2 : WellFounded(factories[k])
          /\ hop = "evaluate" => IsReturned(outcome))
    /\ [][AppendOnly]_vars

====
